---- MODULE Spec2Model ----
(***************************************************************************)
(* Model of src/features2d.rs: the MSER detector wrapper (MSER), its       *)
(* Drop implementation, the configuration builder (MSERBuilder) and the    *)
(* conversion Into<MSER>.                                                  *)
(*                                                                         *)
(* f64 values are written in thousandths (0.25 is 250, 0.003 is 3); the    *)
(* code only stores and forwards them, it never computes with them.        *)
(* Option<T> is a sequence of length 0 (None) or 1 (Some(v)).              *)
(* A *mut CMSER is NULL (0) or an address in Addrs.                        *)
(***************************************************************************)
EXTENDS Integers, Sequences, FiniteSets, TLC

VARIABLES
    builder,   \* the MSERBuilder value of the current chain
    hist,      \* history: setter calls <<name, value>> that produced builder
    fins,      \* history: finalizations [hist, from, at] (at = index in newCalls)
    reqs,      \* history: the arguments of each call of MSER::new
    slots,     \* owner variables, each holding an MSER or nothing
    moved,     \* history: ids of the wrappers that have been moved
    heap,      \* native side: state of each address
    ctx,       \* native side: parameters of the context at each address
    newCalls,  \* history: calls of cv_mser_new, [args, ret]
    dropCalls, \* history: number of calls of cv_mser_drop, by pointer
    detCalls,  \* history: calls of cv_mser_detect_regions
    results,   \* values returned to the caller by detect_regions
    mats,      \* the caller's images
    crashed    \* the process was terminated by a fault in native code

vars == <<builder, hist, fins, reqs, slots, moved, heap, ctx, newCalls,
          dropCalls, detCalls, results, mats, crashed>>


\* ---------------------------------------------------------------- bounds
MaxSetterCalls == 2
MaxFinalize == 2
MaxWrappers == 1
MaxDetects == 3

\* an owner variable for every wrapper and one more to move into
Slots == 1..(MaxWrappers + 1)
\* the native heap has room for every wrapper
Addrs == 1..MaxWrappers
NULL == 0

\* values the caller passes to the setters and to MSER::new
IntVals == {-1, 7}
FloatVals == {-500, 750}

\* -------------------------------------------------------------- Option<T>
None == <<>>
Some(v) == <<v>>
unwrap_or(o, d) == IF o = None THEN d ELSE o[1]

\* ------------------------------------------------------------ MSERBuilder
ParamOrder ==
    << "delta", "min_area", "max_area", "max_variation", "min_diversity",
       "max_evolution", "area_threshold", "min_margin", "edge_blur_size" >>

Params == { ParamOrder[i] : i \in 1..Len(ParamOrder) }

IntParams == {"delta", "min_area", "max_area", "max_evolution", "edge_blur_size"}

ValuesOf(p) == IF p \in IntParams THEN IntVals ELSE FloatVals

MSERBuilder_default ==
    [ delta |-> None, min_area |-> None, max_area |-> None,
      max_variation |-> None, min_diversity |-> None, max_evolution |-> None,
      area_threshold |-> None, min_margin |-> None, edge_blur_size |-> None ]

delta(self, value) == [self EXCEPT !.delta = Some(value)]

\* min_area that keeps a value that is already set
min_area_keep_first(self, value) ==
    IF self.min_area = None THEN [self EXCEPT !.min_area = Some(value)] ELSE self

min_area(self, value) == [self EXCEPT !.min_area = Some(value)]

\* max_area that also clears min_area
max_area_clobber(self, value) ==
    [self EXCEPT !.max_area = Some(value), !.min_area = None]

max_area(self, value) == [self EXCEPT !.max_area = Some(value)]

max_variation(self, value) == [self EXCEPT !.max_variation = Some(value)]

min_diversity(self, value) == [self EXCEPT !.min_diversity = Some(value)]

max_evolution(self, value) == [self EXCEPT !.max_evolution = Some(value)]

area_threshold(self, value) == [self EXCEPT !.area_threshold = Some(value)]

min_margin(self, value) == [self EXCEPT !.min_margin = Some(value)]

edge_blur_size(self, value) == [self EXCEPT !.edge_blur_size = Some(value)]

\* the setter named p
Setter(p, self, value) ==
    CASE p = "delta"          -> delta(self, value)
      [] p = "min_area"       -> min_area(self, value)
      [] p = "max_area"       -> max_area(self, value)
      [] p = "max_variation"  -> max_variation(self, value)
      [] p = "min_diversity"  -> min_diversity(self, value)
      [] p = "max_evolution"  -> max_evolution(self, value)
      [] p = "area_threshold" -> area_threshold(self, value)
      [] p = "min_margin"     -> min_margin(self, value)
      [] p = "edge_blur_size" -> edge_blur_size(self, value)

\* into with max_variation and min_diversity exchanged
Resolve_misplaced(self) ==
    [ delta          |-> unwrap_or(self.delta, 5),
      min_area       |-> unwrap_or(self.min_area, 60),
      max_area       |-> unwrap_or(self.max_area, 14400),
      max_variation  |-> unwrap_or(self.min_diversity, 200),
      min_diversity  |-> unwrap_or(self.max_variation, 250),
      max_evolution  |-> unwrap_or(self.max_evolution, 200),
      area_threshold |-> unwrap_or(self.area_threshold, 1010),
      min_margin     |-> unwrap_or(self.min_margin, 3),
      edge_blur_size |-> unwrap_or(self.edge_blur_size, 5) ]

\* into with a wrong default for max_area
Resolve_wrong_default(self) ==
    [ delta          |-> unwrap_or(self.delta, 5),
      min_area       |-> unwrap_or(self.min_area, 60),
      max_area       |-> unwrap_or(self.max_area, 1440),
      max_variation  |-> unwrap_or(self.max_variation, 250),
      min_diversity  |-> unwrap_or(self.min_diversity, 200),
      max_evolution  |-> unwrap_or(self.max_evolution, 200),
      area_threshold |-> unwrap_or(self.area_threshold, 1010),
      min_margin     |-> unwrap_or(self.min_margin, 3),
      edge_blur_size |-> unwrap_or(self.edge_blur_size, 5) ]

\* Into<MSER>::into: the nine arguments handed to MSER::new, by parameter
Resolve(self) ==
    [ delta          |-> unwrap_or(self.delta, 5),
      min_area       |-> unwrap_or(self.min_area, 60),
      max_area       |-> unwrap_or(self.max_area, 14400),
      max_variation  |-> unwrap_or(self.max_variation, 250),
      min_diversity  |-> unwrap_or(self.min_diversity, 200),
      max_evolution  |-> unwrap_or(self.max_evolution, 200),
      area_threshold |-> unwrap_or(self.area_threshold, 1010),
      min_margin     |-> unwrap_or(self.min_margin, 3),
      edge_blur_size |-> unwrap_or(self.edge_blur_size, 5) ]

\* MSER::new that validates locally: negative values are raised to 0
CallArgs_clamped(a) ==
    << IF a.delta < 0 THEN 0 ELSE a.delta,
       IF a.min_area < 0 THEN 0 ELSE a.min_area,
       IF a.max_area < 0 THEN 0 ELSE a.max_area,
       a.max_variation, a.min_diversity,
       a.max_evolution, a.area_threshold, a.min_margin, a.edge_blur_size >>

\* MSER::new: the positional argument list of the call to cv_mser_new
CallArgs(a) ==
    << a.delta, a.min_area, a.max_area, a.max_variation, a.min_diversity,
       a.max_evolution, a.area_threshold, a.min_margin, a.edge_blur_size >>

\* ------------------------------------------------- collections (core)
\* CVec<T>: an array and its length, filled in by native code
CVecDefault == [array |-> <<>>, size |-> 0]

\* CVec<T>::unpack for a flat element type: the first size elements
unpack(c) == [i \in 1..c.size |-> c.array[i]]

\* CVec<CVec<T>>::unpack: every element is unpacked too
unpackNested(c) == [i \in 1..c.size |-> unpack(c.array[i])]

\* ------------------------------------------------------ the native library
Region1 == [array |-> << <<1, 1>>, <<1, 2>> >>, size |-> 2]
Rect1 == <<1, 1, 1, 2>>

\* what one run of the native detection may produce for the two collections
Outputs ==
    { [msers |-> <<>>, bboxes |-> <<>>],
      [msers |-> <<Region1>>, bboxes |-> <<Rect1>>],
      [msers |-> <<Region1>>, bboxes |-> <<>>] }

\* the native side writes its items into the collection it was handed
NativeWrite(c, items) ==
    [array |-> c.array \o items, size |-> c.size + Len(items)]

IsLive(h) == h \in Addrs /\ heap[h] = "live"

\* cv_mser_new: a context at a free address, or no context at all.  Among
\* the free addresses the lowest is taken: nothing depends on which address
\* a context gets, only on whether an address is used again.
cv_mser_new(args, ret) ==
    /\ ret \in {NULL} \cup {a \in Addrs : heap[a] = "free"}
    /\ \A a \in Addrs : (heap[a] = "free" /\ ret # NULL) => ret <= a
    /\ heap' = IF ret = NULL THEN heap ELSE [heap EXCEPT ![ret] = "live"]
    /\ ctx' = IF ret = NULL THEN ctx ELSE [ctx EXCEPT ![ret] = args]
    /\ newCalls' = Append(newCalls, [args |-> args, ret |-> ret])
    /\ UNCHANGED <<dropCalls, detCalls>>

\* cv_mser_drop: deleting NULL does nothing; deleting a released context
\* is a fault
cv_mser_drop(h) ==
    /\ dropCalls' = [dropCalls EXCEPT ![h] = @ + 1]
    /\ heap' = IF IsLive(h) THEN [heap EXCEPT ![h] = "free"] ELSE heap
    /\ crashed' = (h # NULL /\ ~IsLive(h))
    /\ UNCHANGED <<ctx, newCalls, detCalls>>

\* earlier outputs of the native detection for the same context parameters
\* and the same image content
Earlier(args, content) ==
    { detCalls[i].out : i \in { j \in 1..Len(detCalls) :
          /\ detCalls[j].valid
          /\ detCalls[j].args = args
          /\ detCalls[j].content = content } }

\* cv_mser_detect_regions on a context: reads the context and the image,
\* writes the two collections; the same context parameters and image
\* content give the same output.  msers2 and bboxes2 are the collections
\* after the call.
cv_mser_detect_regions(h, content, msers, bboxes, msers2, bboxes2) ==
    /\ IsLive(h)
    /\ \E out \in Outputs :
          /\ Earlier(ctx[h], content) \subseteq {out}
          /\ msers2 = NativeWrite(msers, out.msers)
          /\ bboxes2 = NativeWrite(bboxes, out.bboxes)
          /\ detCalls' = Append(detCalls,
                 [h |-> h, valid |-> TRUE, args |-> ctx[h],
                  content |-> content, out |-> out,
                  msers |-> msers2, bboxes |-> bboxes2])
    /\ UNCHANGED <<heap, ctx, crashed, newCalls, dropCalls>>

\* cv_mser_detect_regions on a pointer that is not a context: the process
\* faults inside the native call
cv_mser_detect_fault(h, content) ==
    /\ ~IsLive(h)
    /\ detCalls' = Append(detCalls, [h |-> h, valid |-> FALSE,
                                     content |-> content])
    /\ crashed' = TRUE
    /\ UNCHANGED <<heap, ctx, newCalls, dropCalls>>

\* ------------------------------------------------------------------- MSER
Uninit == [value |-> NULL, id |-> 0]

Holds(s) == slots[s].id # 0

\* MSER::new(a) bound to owner s: the pointer returned by cv_mser_new is
\* wrapped as it is
MSER_new(a, s) ==
    \E ret \in {NULL} \cup Addrs :
        /\ cv_mser_new(CallArgs(a), ret)
        /\ slots' = [slots EXCEPT ![s] = [value |-> ret, id |-> Len(newCalls) + 1]]
        /\ UNCHANGED crashed

\* msers that still holds what the previous call left in it
LocalMsers_stale ==
    IF detCalls # <<>> /\ detCalls[Len(detCalls)].valid
    THEN detCalls[Len(detCalls)].msers
    ELSE CVecDefault

\* the collections detect_regions hands to the native call
LocalMsers == CVecDefault

\* bboxes that still holds what the previous call left in it
LocalBboxes_stale ==
    IF detCalls # <<>> /\ detCalls[Len(detCalls)].valid
    THEN detCalls[Len(detCalls)].bboxes
    ELSE CVecDefault

LocalBboxes == CVecDefault

\* a pair cut to the shorter of the two collections
Returned_paired(msers, bboxes) ==
    LET n == IF msers.size < bboxes.size THEN msers.size ELSE bboxes.size
    IN  [msers |-> [i \in 1..n |-> unpack(msers.array[i])],
         boxes |-> [i \in 1..n |-> bboxes.array[i]]]

\* the pair detect_regions returns
Returned(msers, bboxes) ==
    [msers |-> unpackNested(msers), boxes |-> unpack(bboxes)]

\* detect_regions(&self, image) for the wrapper in s and the image m
detect_regions(s, m) ==
    \/ /\ \E msers2 \in {NativeWrite(LocalMsers, o.msers) : o \in Outputs},
             bboxes2 \in {NativeWrite(LocalBboxes, o.bboxes) : o \in Outputs} :
             /\ cv_mser_detect_regions(slots[s].value, mats[m],
                                       LocalMsers, LocalBboxes, msers2, bboxes2)
             /\ results' = Append(results,
                    [id |-> slots[s].id, content |-> mats[m],
                     args |-> ctx[slots[s].value],
                     ret |-> Returned(msers2, bboxes2)])
       /\ UNCHANGED <<slots, mats>>
    \/ /\ cv_mser_detect_fault(slots[s].value, mats[m])
       /\ UNCHANGED <<slots, mats, results>>

\* Drop::drop(&mut self)
drop(self) == cv_mser_drop(self.value)

\* ------------------------------------------------------------ initial state
Init ==
    /\ builder = MSERBuilder_default
    /\ hist = <<>>
    /\ fins = <<>>
    /\ reqs = <<>>
    /\ slots = [s \in Slots |-> Uninit]
    /\ moved = {}
    /\ heap = [a \in Addrs |-> "free"]
    /\ ctx = [a \in Addrs |-> <<>>]
    /\ newCalls = <<>>
    /\ dropCalls = [h \in {NULL} \cup Addrs |-> 0]
    /\ detCalls = <<>>
    /\ results = <<>>
    /\ mats = <<"blank", "blob">>
    /\ crashed = FALSE

\* ---------------------------------------------------------- builder actions
\* builder = builder.p(v): the chain continues with the value the setter
\* returned
Chain(next, p, v) ==
    /\ ~crashed
    /\ Len(hist) < MaxSetterCalls
    /\ builder' = next
    /\ hist' = Append(hist, <<p, v>>)
    /\ UNCHANGED <<fins, reqs, slots, moved, heap, ctx, newCalls, dropCalls,
                   detCalls, results, mats, crashed>>

Call_delta == \E v \in IntVals : Chain(delta(builder, v), "delta", v)

Call_min_area == \E v \in IntVals : Chain(min_area(builder, v), "min_area", v)

Call_max_area == \E v \in IntVals : Chain(max_area(builder, v), "max_area", v)

Call_max_variation ==
    \E v \in FloatVals : Chain(max_variation(builder, v), "max_variation", v)

Call_min_diversity ==
    \E v \in FloatVals : Chain(min_diversity(builder, v), "min_diversity", v)

Call_max_evolution ==
    \E v \in IntVals : Chain(max_evolution(builder, v), "max_evolution", v)

Call_area_threshold ==
    \E v \in FloatVals : Chain(area_threshold(builder, v), "area_threshold", v)

Call_min_margin ==
    \E v \in FloatVals : Chain(min_margin(builder, v), "min_margin", v)

Call_edge_blur_size ==
    \E v \in IntVals : Chain(edge_blur_size(builder, v), "edge_blur_size", v)

\* let d: MSER = builder.into(), d being the next unused owner variable:
\* the builder is Copy, the caller keeps it
Into ==
    /\ ~crashed
    /\ Len(fins) < MaxFinalize
    /\ \E s \in Slots :
          /\ ~Holds(s)
          /\ \A t \in Slots : t < s => Holds(t)
          /\ MSER_new(Resolve(builder), s)
    /\ fins' = Append(fins, [hist |-> hist, from |-> builder, at |-> Len(newCalls) + 1])
    /\ reqs' = Append(reqs, Resolve(builder))
    /\ UNCHANGED <<builder, hist, moved, results, mats>>

\* --------------------------------------------------------- detector actions
BadArgs ==
    [ delta |-> -1, min_area |-> 7, max_area |-> -1, max_variation |-> -500,
      min_diversity |-> 750, max_evolution |-> -1, area_threshold |-> -500,
      min_margin |-> 750, edge_blur_size |-> 7 ]

ArgChoices == {Resolve(MSERBuilder_default), BadArgs}

\* let s = MSER::new(a), s being the next unused owner variable
New ==
    /\ ~crashed
    /\ Len(newCalls) < MaxWrappers
    /\ \E a \in ArgChoices, s \in Slots :
          /\ ~Holds(s)
          /\ \A t \in Slots : t < s => Holds(t)
          /\ MSER_new(a, s)
          /\ reqs' = Append(reqs, a)
    /\ UNCHANGED <<builder, hist, fins, moved, results, mats>>

\* a move that leaves the source usable, as if MSER were Copy
Move_copy ==
    /\ ~crashed
    /\ \E s \in Slots, t \in Slots :
          /\ Holds(s)
          /\ ~Holds(t)
          /\ slots' = [slots EXCEPT ![t] = slots[s]]
          /\ moved' = moved \cup {slots[s].id}
    /\ UNCHANGED <<builder, hist, fins, reqs, heap, ctx, newCalls, dropCalls,
                   detCalls, results, mats, crashed>>

\* let t = s: MSER is neither Copy nor Clone, s is left without a value and
\* nothing is dropped
Move ==
    /\ ~crashed
    /\ \E s \in Slots, t \in Slots :
          /\ Holds(s)
          /\ ~Holds(t)
          /\ slots' = [slots EXCEPT ![t] = slots[s], ![s] = Uninit]
          /\ moved' = moved \cup {slots[s].id}
    /\ UNCHANGED <<builder, hist, fins, reqs, heap, ctx, newCalls, dropCalls,
                   detCalls, results, mats, crashed>>

\* s.detect_regions(&mats[m])
Detect ==
    /\ ~crashed
    /\ Len(results) < MaxDetects
    /\ \E s \in Slots, m \in DOMAIN mats :
          /\ Holds(s)
          /\ detect_regions(s, m)
    /\ UNCHANGED <<builder, hist, fins, reqs, moved>>

\* the owner s goes out of scope: its value, if it has one, is dropped
ScopeExit ==
    /\ ~crashed
    /\ \E s \in Slots :
          /\ Holds(s)
          /\ drop(slots[s])
          /\ slots' = [slots EXCEPT ![s] = Uninit]
    /\ UNCHANGED <<builder, hist, fins, reqs, moved, results, mats>>

Next == New \/ Move \/ Detect \/ ScopeExit

Spec == Init /\ [][Next]_vars

NextBuilder ==
    \/ Call_delta
    \/ Call_min_area
    \/ Call_max_area
    \/ Call_max_variation
    \/ Call_min_diversity
    \/ Call_max_evolution
    \/ Call_area_threshold
    \/ Call_min_margin
    \/ Call_edge_blur_size
    \/ Into

SpecBuilder == Init /\ [][NextBuilder]_vars

\* ================================================================ claims
\* the documented defaults, in parameter order
DocumentedDefaults == <<5, 60, 14400, 250, 200, 200, 1010, 3, 5>>

\* the value of the last call of setter p in the history h, if any
LastFor(h, p) ==
    LET I == { i \in 1..Len(h) : h[i][1] = p }
    IN  IF I = {} THEN None
        ELSE Some(h[CHOOSE i \in I : \A j \in I : j <= i][2])

\* the wrapper with id k is no longer held by any owner
Gone(k) == \A s \in Slots : slots[s].id # k

\* C1: finalizing a builder on which no setter was called passes exactly
\* the documented defaults, in parameter order, to the native constructor.
C1_DefaultsPassed ==
    \A i \in 1..Len(fins) :
        fins[i].hist = <<>> =>
            newCalls[fins[i].at].args = <<5, 60, 14400, 250, 200, 200, 1010, 3, 5>>

C1_Witness ==
    \E i \in 1..Len(fins) : fins[i].hist = <<>> /\ fins[i].at <= Len(newCalls)

\* C2: for every sequence of setter calls and every parameter, the value
\* passed to the native constructor is the one of the last setter call for
\* that parameter; a value set earlier for the same parameter has no effect
\* and setting a value twice is the same as setting it once.
C2_LastPassed ==
    \A i \in 1..Len(fins) : \A k \in 1..Len(ParamOrder) :
        LET last == LastFor(fins[i].hist, ParamOrder[k])
        IN  last # None => newCalls[fins[i].at].args[k] = last[1]

\* a step that calls setter p with v: the result is the same as after
\* calling p with any value first, or with v a second time
C2_Overwrite ==
    Len(hist') = Len(hist) + 1 =>
        LET p == hist'[Len(hist')][1]
            v == hist'[Len(hist')][2]
        IN  /\ builder'[p] = Some(v)
            /\ Setter(p, builder', v) = builder'
            /\ \A w \in ValuesOf(p) : Setter(p, Setter(p, builder, w), v) = builder'

C2_LastSetterWins == []C2_LastPassed /\ [][C2_Overwrite]_vars

C2_Witness ==
    \E i \in 1..Len(fins) :
        /\ Len(fins[i].hist) = 2
        /\ fins[i].hist[1][1] = fins[i].hist[2][1]
        /\ fins[i].hist[1][2] # fins[i].hist[2][2]

\* C9: finalization resolves each parameter on its own: an overridden
\* parameter is passed with its overridden value in its own position, a
\* parameter that is not overridden is passed with its documented default.
C9_IndependentResolution ==
    \A i \in 1..Len(fins) : \A k \in 1..Len(ParamOrder) :
        newCalls[fins[i].at].args[k] =
            IF fins[i].from[ParamOrder[k]] = None
            THEN DocumentedDefaults[k]
            ELSE fins[i].from[ParamOrder[k]][1]

C9_Witness ==
    \E i \in 1..Len(fins) :
        /\ fins[i].from.max_variation # None
        /\ fins[i].from.min_area # None
        /\ fins[i].from.min_diversity = None

\* C10: a setter changes only its own field, setters of two different
\* parameters commute, and neither a setter call nor finalization changes
\* the builder the caller holds; finalizing the same builder again
\* constructs another detector with the same arguments.
C10_Again ==
    \A i \in 1..Len(fins), j \in 1..Len(fins) :
        (i # j /\ fins[i].from = fins[j].from) =>
            /\ newCalls[fins[i].at].args = newCalls[fins[j].at].args
            /\ fins[i].at # fins[j].at

C10_Frame ==
    /\ Len(hist') = Len(hist) + 1 =>
          LET p == hist'[Len(hist')][1]
              v == hist'[Len(hist')][2]
          IN  \A q \in Params \ {p} :
                  /\ builder'[q] = builder[q]
                  /\ \A w \in ValuesOf(q) :
                         Setter(q, builder', w) = Setter(p, Setter(q, builder, w), v)
    /\ Len(fins') = Len(fins) + 1 =>
          /\ builder' = builder
          /\ fins'[Len(fins')].from = builder

C10_BuilderFrame == []C10_Again /\ [][C10_Frame]_vars

C10_Witness ==
    /\ Len(hist) = 2
    /\ hist[1][1] = "min_area"
    /\ hist[2][1] = "max_area"
    /\ Len(fins) = 2
    /\ fins[1].from = builder
    /\ fins[2].from = builder

\* C6: construction performs no local validation: whatever nine values are
\* given, out of range or inconsistent, MSER::new passes them unchanged to
\* the native constructor and returns a wrapper around whatever pointer the
\* native constructor returned, also when that is no context.
C6_ArgsUnchanged ==
    /\ Len(reqs) = Len(newCalls)
    /\ \A k \in 1..Len(reqs) : \A i \in 1..Len(ParamOrder) :
          newCalls[k].args[i] = reqs[k][ParamOrder[i]]

C6_WrapperReturned ==
    Len(reqs') = Len(reqs) + 1 =>
        \E s \in Slots :
            /\ ~Holds(s)
            /\ slots'[s].id = Len(reqs')
            /\ slots'[s].value = newCalls'[Len(reqs')].ret

C6_NoValidation == []C6_ArgsUnchanged /\ [][C6_WrapperReturned]_vars

C6_Witness ==
    \E s \in Slots :
        /\ Holds(s)
        /\ slots[s].value = NULL
        /\ reqs[slots[s].id].min_area > reqs[slots[s].id].max_area
        /\ reqs[slots[s].id].delta < 0

\* C3: cv_mser_drop is called exactly once for the handle of every wrapper
\* that is gone and not at all for the handle of a wrapper that is still
\* owned, whether or not the wrapper was moved.
C3_ReleasedOnce ==
    \A h \in {NULL} \cup Addrs :
        dropCalls[h] =
            Cardinality({ k \in 1..Len(newCalls) : newCalls[k].ret = h /\ Gone(k) })

C3_Witness ==
    \E k \in moved :
        /\ Gone(k)
        /\ newCalls[k].ret # NULL
        /\ dropCalls[newCalls[k].ret] = 1

\* C4: the handle of every owned wrapper is a live native context, every
\* call that reached the native detection was given a live context, and no
\* two owners hold the same handle.
C4_HandleAlwaysValid ==
    /\ \A s \in Slots : Holds(s) => IsLive(slots[s].value)
    /\ \A i \in 1..Len(detCalls) : detCalls[i].valid
    /\ \A s \in Slots, t \in Slots :
          (s # t /\ Holds(s) /\ Holds(t)) => slots[s].value # slots[t].value

C8_DetectStep ==
    Len(detCalls') = Len(detCalls) + 1 =>
        /\ mats' = mats
        /\ slots' = slots
        /\ ctx' = ctx
        /\ heap' = heap
        /\ SubSeq(results', 1, Len(results)) = results
        /\ Len(results') = Len(results) + 1 =>
              LET r == results'[Len(results')].ret
                  o == detCalls'[Len(detCalls')].out
              IN  /\ Len(r.msers) = Len(o.msers)
                  /\ r.boxes = o.bboxes
                  /\ \A i \in 1..Len(o.msers) : r.msers[i] = o.msers[i].array

C8_DetectFrame == [][C8_DetectStep]_vars

C8_Witness ==
    /\ Len(results) = 2
    /\ results[1].id = results[2].id
    /\ results[1].ret.boxes # <<>>
    /\ results[2].ret.boxes # <<>>

====
